---- MODULE Spec2Model ----
(***************************************************************************)
(* Model of the interview decision engine of src/next_agent.py: the        *)
(* session state INTERVIEW_STATE, its update function, the answer          *)
(* evaluator, the category balancer, the question selector, and the turn   *)
(* loop of the interview_navigator agent that ties them together.          *)
(*                                                                         *)
(* A Python str is a sequence of characters.  A character is a TLA+        *)
(* string: a Latin letter stands for itself, a Hangul syllable is written  *)
(* in its romanised form ("mo" for U+BAA8), so that len() is Len and the   *)
(* operator `in` on strings is Contains.  A syllable whose romanised form  *)
(* is one letter has the letter doubled ("ii" for U+C774, "aa" for         *)
(* U+C544), so that no syllable is written as a Latin letter is.           *)
(* Texts that are only passed on or compared as a whole (a question's      *)
(* text, a category, a difficulty, a follow-up sentence) are names.        *)
(***************************************************************************)
EXTENDS Integers, Sequences, FiniteSets, TLC

VARIABLES
    QUESTION_LIST,        \* the question bank loaded at server start
    current_question_id,  \* INTERVIEW_STATE["current_question_id"]
    asked_question_ids,   \* INTERVIEW_STATE["asked_question_ids"], a list
    follow_up_counts,     \* INTERVIEW_STATE["follow_up_counts"], a dict
    phase,                \* position of the navigator's turn loop
    emitted,              \* the response of the last turn
    follow_ups_given,     \* history: follow-ups emitted per question id
    call,                 \* arguments of a direct call of a tool function
    ret                   \* what that call returned

vars == <<QUESTION_LIST, current_question_id, asked_question_ids,
          follow_up_counts, phase, emitted, follow_ups_given, call, ret>>

session == <<QUESTION_LIST, current_question_id, asked_question_ids,
             follow_up_counts, phase, emitted, follow_ups_given>>

-----------------------------------------------------------------------------
(* Bounds of the model *)

\* largest follow_up_count handed to evaluate_answer in a direct call
MaxFollowUpCount == 3

\* largest number of questions of a loaded bank (QUESTION_LIST)
MaxQuestions == 3

\* largest follow-up count reached by direct calls of update_interview_state
MaxDirectCount == 3

\* largest question id handed to update_interview_state in a direct call
MaxDirectId == 2

\* largest number of questions of a bank handed to select_best_question
\* in a direct call
MaxBankLen == 2

\* largest number of questions of a bank that two sessions work on
MaxSharedQuestions == 2

\* largest number of asked questions of one category handed to
\* check_category_balance in a direct call
MaxTally == 4

\* longest list of interest patterns handed to generate_follow_up in a
\* direct call
MaxPatterns == 3

-----------------------------------------------------------------------------
(* Python values *)

\* None where a str is expected: a value that is no string of the model
\* (no string holds this character)
None == <<"<None>">>

\* None where an int is expected (question ids are positive)
NoneId == -1

\* The empty dict
EmptyDict == [k \in {} |-> 0]

\* d.get(k, default) on a dict or a record
Get(d, k, default) == IF k \in DOMAIN d THEN d[k] ELSE default

\* d[k] = v on a dict
Put(d, k, v) == [x \in DOMAIN d \cup {k} |-> IF x = k THEN v ELSE d[x]]

\* x in lst, for a list
InList(x, lst) == \E i \in 1..Len(lst) : lst[i] = x

\* sub in s, for strings: sub occurs at some offset of s (the first
\* character is compared before the rest)
Contains(s, sub) ==
    \/ sub = <<>>
    \/ \E i \in 1..(Len(s) - Len(sub) + 1) :
          /\ s[i] = sub[1]
          /\ SubSeq(s, i, i + Len(sub) - 1) = sub

\* str.lower() of one character: the cased letters of the model's alphabet;
\* Hangul syllables, digits and punctuation have no case
LowerChar(c) ==
    CASE c = "S" -> "s"
      [] c = "Q" -> "q"
      [] c = "L" -> "l"
      [] c = "X" -> "x"
      [] c = "I" -> "i"
      [] OTHER -> c

\* the function on 1..n as a list value
AsList(f) == f \o <<>>

\* s.lower()
Lower(s) == AsList([i \in 1..Len(s) |-> LowerChar(s[i])])

\* the lists of length n over set S
RECURSIVE ListsOfLen(_, _)
ListsOfLen(S, n) ==
    IF n = 0 THEN {<<>>}
    ELSE {Append(l, x) : l \in ListsOfLen(S, n - 1), x \in S}

ListsUpTo(S, n) == UNION {ListsOfLen(S, k) : k \in 0..n}

\* n copies of character c
Repeat(c, n) == AsList([i \in 1..n |-> c])

-----------------------------------------------------------------------------
(* evaluate_answer *)

\* the follow-up cap of rule 1
MAX_FOLLOW_UPS == 2

\* the length below which an answer is too short (rule 2)
TOO_SHORT_LEN == 20

\* the length below which an answer without keyword gets a follow-up
SHORT_LEN == 100

\* avoid_phrases: 모르겠, 없습니다, 잘 모릅, 생각나지, 없어요
avoid_phrases ==
    << <<"mo", "reu", "gess">>,
       <<"eops", "seup", "ni", "da">>,
       <<"jal", " ", "mo", "reup">>,
       <<"saeng", "gak", "na", "ji">>,
       <<"eops", "eo", "yo">> >>

\* the categories of interest_patterns, in the dict's insertion order
interest_categories ==
    <<"numbers", "conflict", "achievement", "leadership", "creative">>

\* interest_patterns[category]
interest_patterns(category) ==
    CASE category = "numbers" ->
           \* 배, 배 증가, 명, 등, 위, %, 명 관리, 팀장, 리더
           << <<"bae">>, <<"bae", " ", "jeung", "ga">>, <<"myeong">>,
              <<"deung">>, <<"wi">>, <<"%">>,
              <<"myeong", " ", "gwan", "ri">>, <<"tim", "jang">>,
              <<"ri", "deo">> >>
      [] category = "conflict" ->
           \* 갈등, 충돌, 의견 차이, 어려움, 문제, 실패
           << <<"gal", "deung">>, <<"chung", "dol">>,
              <<"ui", "gyeon", " ", "cha", "ii">>, <<"eo", "ryeo", "um">>,
              <<"mun", "je">>, <<"sil", "pae">> >>
      [] category = "achievement" ->
           \* 달성, 성공, 성과, 개선, 향상, 1등, 수상
           << <<"dal", "seong">>, <<"seong", "gong">>, <<"seong", "gwa">>,
              <<"gae", "seon">>, <<"hyang", "sang">>, <<"1", "deung">>,
              <<"su", "sang">> >>
      [] category = "leadership" ->
           \* 리드, 이끌, 관리, 팀장, 주도
           << <<"ri", "deu">>, <<"ii", "kkeul">>, <<"gwan", "ri">>,
              <<"tim", "jang">>, <<"ju", "do">> >>
      [] category = "creative" ->
           \* 새로운, 창의, 혁신, 아이디어, 방법
           << <<"sae", "ro", "un">>, <<"chang", "ui">>, <<"hyeok", "sin">>,
              <<"aa", "ii", "di", "eo">>, <<"bang", "beop">> >>

\* any(phrase in answer for phrase in phrases), for non-empty phrases: a
\* phrase whose first character is no character of the answer is not in it
AnyIn(phrases, answer) ==
    LET chars == {answer[i] : i \in 1..Len(answer)}
    IN  \E i \in 1..Len(phrases) :
            phrases[i][1] \in chars /\ Contains(answer, phrases[i])

\* is_evasive with any() stopping at the first phrase of the list
is_evasive_first_phrase_only(answer) == Contains(answer, avoid_phrases[1])

\* is_evasive (line 274): the phrases are looked up in the answer as given
is_evasive(answer) == AnyIn(avoid_phrases, answer)

\* keyword_found (line 289): both sides lowered
keyword_found(answer, keywords) ==
    LET lowered == Lower(answer)
    IN  \E i \in 1..Len(keywords) : Contains(lowered, Lower(keywords[i]))

\* found_patterns (lines 300-308): the categories with a trigger in the
\* answer, in the dict's order, each at most once (the inner loop breaks)
RECURSIVE found_patterns_from(_, _)
found_patterns_from(answer, i) ==
    IF i > Len(interest_categories) THEN <<>>
    ELSE (IF AnyIn(interest_patterns(interest_categories[i]), answer)
          THEN <<interest_categories[i]>> ELSE <<>>)
         \o found_patterns_from(answer, i + 1)

\* found_patterns with the inner loop not left at the first match: a
\* category is listed once for each of its triggers in the answer
RECURSIVE triggers_found_from(_, _, _)
triggers_found_from(answer, i, k) ==
    IF i > Len(interest_categories) THEN <<>>
    ELSE IF k > Len(interest_patterns(interest_categories[i]))
         THEN triggers_found_from(answer, i + 1, 1)
    ELSE (IF Contains(answer, interest_patterns(interest_categories[i])[k])
          THEN <<interest_categories[i]>> ELSE <<>>)
         \o triggers_found_from(answer, i, k + 1)

found_patterns_per_trigger(answer) == triggers_found_from(answer, 1, 1)

found_patterns(answer) == found_patterns_from(answer, 1)

\* the "analysis" entry of a result
Analysis(answer, kw, score) ==
    [length |-> Len(answer), keyword_found |-> kw, interest_score |-> score]

\* a raised exception, in place of a returned value
Raise(exc) == [raised |-> exc]

Raised(r) == "raised" \in DOMAIN r

\* rules 3 and 4 without the rule for a short answer with no keyword
ContentRules_without_short_rule(answer, keywords) ==
    IF is_evasive(answer) THEN
        [needs_follow_up |-> TRUE, reason |-> "evasive",
         analysis |-> Analysis(answer, FALSE, 2)]
    ELSE
        LET kw == keyword_found(answer, keywords)
            found == found_patterns(answer)
            interest_score == Len(found)
        IN  IF interest_score >= 2 THEN
                [needs_follow_up |-> TRUE, reason |-> "interesting_point",
                 interest_patterns |-> {found[i] : i \in 1..Len(found)},
                 analysis |-> Analysis(answer, kw, interest_score)]
            ELSE
                [needs_follow_up |-> FALSE, reason |-> "sufficient",
                 analysis |-> Analysis(answer, kw, interest_score)]

\* rules 3 and 4 with an interesting point reported without its
\* categories
ContentRules_without_patterns(answer, keywords) ==
    IF is_evasive(answer) THEN
        [needs_follow_up |-> TRUE, reason |-> "evasive",
         analysis |-> Analysis(answer, FALSE, 2)]
    ELSE
        LET kw == keyword_found(answer, keywords)
            found == found_patterns(answer)
            interest_score == Len(found)
        IN  IF interest_score >= 2 THEN
                [needs_follow_up |-> TRUE, reason |-> "interesting_point",
                 interest_patterns |-> {},
                 analysis |-> Analysis(answer, kw, interest_score)]
            ELSE IF ~kw /\ Len(answer) < SHORT_LEN THEN
                [needs_follow_up |-> TRUE, reason |-> "no_keywords_short",
                 analysis |-> Analysis(answer, FALSE, interest_score)]
            ELSE
                [needs_follow_up |-> FALSE, reason |-> "sufficient",
                 analysis |-> Analysis(answer, kw, interest_score)]

\* rules 3 and 4 with the rule for a short answer with no keyword tested
\* before the interest score
ContentRules_short_rule_first(answer, keywords) ==
    IF is_evasive(answer) THEN
        [needs_follow_up |-> TRUE, reason |-> "evasive",
         analysis |-> Analysis(answer, FALSE, 2)]
    ELSE
        LET kw == keyword_found(answer, keywords)
            found == found_patterns(answer)
            interest_score == Len(found)
        IN  IF ~kw /\ Len(answer) < SHORT_LEN THEN
                [needs_follow_up |-> TRUE, reason |-> "no_keywords_short",
                 analysis |-> Analysis(answer, FALSE, interest_score)]
            ELSE IF interest_score >= 2 THEN
                [needs_follow_up |-> TRUE, reason |-> "interesting_point",
                 interest_patterns |-> {found[i] : i \in 1..Len(found)},
                 analysis |-> Analysis(answer, kw, interest_score)]
            ELSE
                [needs_follow_up |-> FALSE, reason |-> "sufficient",
                 analysis |-> Analysis(answer, kw, interest_score)]

\* the decision of rules 3 and 4 (lines 272-350), for a str answer
ContentRules(answer, keywords) ==
    IF is_evasive(answer) THEN
        [needs_follow_up |-> TRUE, reason |-> "evasive",
         analysis |-> Analysis(answer, FALSE, 2)]
    ELSE
        LET kw == keyword_found(answer, keywords)
            found == found_patterns(answer)
            interest_score == Len(found)
        IN  IF interest_score >= 2 THEN
                [needs_follow_up |-> TRUE, reason |-> "interesting_point",
                 interest_patterns |-> {found[i] : i \in 1..Len(found)},
                 analysis |-> Analysis(answer, kw, interest_score)]
            ELSE IF ~kw /\ Len(answer) < SHORT_LEN THEN
                [needs_follow_up |-> TRUE, reason |-> "no_keywords_short",
                 analysis |-> Analysis(answer, FALSE, interest_score)]
            ELSE
                [needs_follow_up |-> FALSE, reason |-> "sufficient",
                 analysis |-> Analysis(answer, kw, interest_score)]

\* evaluate_answer with rule 2 (too short) tested before rule 1 (the cap)
evaluate_answer_short_before_cap(question, answer, keywords, follow_up_count) ==
    IF answer = None THEN Raise("TypeError")
    ELSE IF Len(answer) < TOO_SHORT_LEN THEN
        [needs_follow_up |-> TRUE, reason |-> "too_short",
         analysis |-> Analysis(answer, FALSE, 3)]
    ELSE IF follow_up_count >= MAX_FOLLOW_UPS THEN
        [needs_follow_up |-> FALSE, reason |-> "max_follow_ups",
         analysis |-> Analysis(answer, FALSE, 0)]
    ELSE ContentRules(answer, keywords)

\* evaluate_answer with rule 3 (evasive) tested before rule 2 (too short)
evaluate_answer_evasive_before_short(question, answer, keywords, follow_up_count) ==
    IF answer = None THEN Raise("TypeError")
    ELSE IF follow_up_count >= MAX_FOLLOW_UPS THEN
        [needs_follow_up |-> FALSE, reason |-> "max_follow_ups",
         analysis |-> Analysis(answer, FALSE, 0)]
    ELSE IF is_evasive(answer) THEN
        [needs_follow_up |-> TRUE, reason |-> "evasive",
         analysis |-> Analysis(answer, FALSE, 2)]
    ELSE IF Len(answer) < TOO_SHORT_LEN THEN
        [needs_follow_up |-> TRUE, reason |-> "too_short",
         analysis |-> Analysis(answer, FALSE, 3)]
    ELSE ContentRules(answer, keywords)

evaluate_answer(question, answer, keywords, follow_up_count) ==
    IF follow_up_count >= MAX_FOLLOW_UPS THEN
        \* len(answer) in the analysis entry raises on None
        IF answer = None THEN Raise("TypeError")
        ELSE [needs_follow_up |-> FALSE, reason |-> "max_follow_ups",
              analysis |-> Analysis(answer, FALSE, 0)]
    ELSE IF answer = None THEN Raise("TypeError")
    ELSE IF Len(answer) < TOO_SHORT_LEN THEN
        [needs_follow_up |-> TRUE, reason |-> "too_short",
         analysis |-> Analysis(answer, FALSE, 3)]
    ELSE ContentRules(answer, keywords)

-----------------------------------------------------------------------------
(* generate_follow_up *)

\* generate_follow_up choosing the sentences of an interesting point by
\* the category listed first
generate_follow_up_by_first_listed(question, answer, reason, patterns) ==
    IF reason = "too_short" THEN "explain_in_more_detail"
    ELSE IF reason = "evasive" THEN "any_related_experience"
    ELSE IF reason = "no_keywords_short" THEN "give_a_concrete_example"
    ELSE IF reason = "interesting_point" /\ patterns # <<>> THEN
        IF patterns[1] \in {"numbers", "achievement"}
            THEN "what_effort_for_that_result"
        ELSE IF patterns[1] = "conflict" THEN "how_did_you_overcome_it"
        ELSE IF patterns[1] = "leadership" THEN "hardest_moment_leading"
        ELSE "most_memorable_moment"
    ELSE "be_more_specific"

\* generate_follow_up (lines 378-418): the returned sentence, by name.
\* interest_patterns is the list of category tags; None and the empty
\* list are both falsy and are both written <<>>.  Each list of sentences
\* is named by its first sentence, the one returned.
generate_follow_up(question, answer, reason, patterns) ==
    IF reason = "too_short" THEN "explain_in_more_detail"
    ELSE IF reason = "evasive" THEN "any_related_experience"
    ELSE IF reason = "no_keywords_short" THEN "give_a_concrete_example"
    ELSE IF reason = "interesting_point" /\ patterns # <<>> THEN
        IF InList("numbers", patterns) \/ InList("achievement", patterns)
            THEN "what_effort_for_that_result"
        ELSE IF InList("conflict", patterns) THEN "how_did_you_overcome_it"
        ELSE IF InList("leadership", patterns) THEN "hardest_moment_leading"
        ELSE "most_memorable_moment"
    ELSE "be_more_specific"

-----------------------------------------------------------------------------
(* check_category_balance *)

\* None where a category, a difficulty or a question text is expected
NoneStr == "<None>"

\* the keys of target_distribution, in insertion order
target_categories == <<"talent_philosophy", "experience", "motivation", "other">>

target_distribution ==
    [talent_philosophy |-> 3, experience |-> 4, motivation |-> 2, other |-> 1]

\* category_count (lines 441-445): the tally of q.get("category", "other")
category_count(asked_questions) ==
    LET cat(i) == Get(asked_questions[i], "category", "other")
        seen == {cat(i) : i \in 1..Len(asked_questions)}
    IN  [c \in seen |->
            Cardinality({i \in 1..Len(asked_questions) : cat(i) = c})]

\* needs_more with a category kept while its tally is at the target
needs_more_of_up_to_target(count) ==
    LET below(c) == Get(count, c, 0) <= target_distribution[c]
    IN  SelectSeq(target_categories, below)

\* needs_more (lines 456-460)
needs_more_of(count) ==
    LET below(c) == Get(count, c, 0) < target_distribution[c]
    IN  SelectSeq(target_categories, below)

check_category_balance(asked_questions) ==
    LET count == category_count(asked_questions)
    IN  [category_count |-> count,
         target_distribution |-> target_distribution,
         needs_more |-> needs_more_of(count)]

-----------------------------------------------------------------------------
(* select_best_question *)

\* the closing message of the terminal sentinel
CLOSING_MESSAGE == "closing"

\* the terminal sentinel (lines 508-513)
Sentinel ==
    [question_id |-> NoneId, question |-> CLOSING_MESSAGE,
     category |-> "end", score |-> 0]

\* available_questions with the test on asked_question_ids left out
available_questions_unfiltered(question_list, asked_ids) == question_list

\* available_questions (lines 501-504)
available_questions(question_list, asked_ids) ==
    LET unasked(q) == ~InList(Get(q, "id", NoneId), asked_ids)
    IN  SelectSeq(question_list, unasked)

\* a category factor that weighs a needed category with 20
balance_score_light(q, needs_more_categories) ==
    IF InList(Get(q, "category", NoneStr), needs_more_categories)
    THEN 20 ELSE 10

\* a category factor that weighs a needed category with 50
balance_score_overweight(q, needs_more_categories) ==
    IF InList(Get(q, "category", NoneStr), needs_more_categories)
    THEN 50 ELSE 10

\* factor 1, category balance (lines 523-526)
balance_score(q, needs_more_categories) ==
    IF InList(Get(q, "category", NoneStr), needs_more_categories)
    THEN 40 ELSE 10

\* a context factor that compares the keywords as they are written
context_score_case_sensitive(q, last_answer) ==
    IF last_answer # None /\ last_answer # <<>> THEN
        IF AnyIn(Get(q, "keywords", <<>>), last_answer)
        THEN 30 ELSE 5
    ELSE 15

\* factor 2, context (lines 529-536); an empty or None last_answer is falsy
context_score(q, last_answer) ==
    IF last_answer # None /\ last_answer # <<>> THEN
        IF keyword_found(last_answer, Get(q, "keywords", <<>>))
        THEN 30 ELSE 5
    ELSE 15

\* a difficulty factor that scores every stage as the middle one
difficulty_score_mid_stage_only(q, total_asked) ==
    IF Get(q, "difficulty", "medium") = "medium" THEN 20 ELSE 10

\* factor 3, difficulty by the number of asked ids (lines 539-556)
difficulty_score(q, total_asked) ==
    LET difficulty == Get(q, "difficulty", "medium")
    IN  IF total_asked <= 3 THEN
            (IF difficulty = "easy" THEN 20
             ELSE IF difficulty = "medium" THEN 10 ELSE 0)
        ELSE IF total_asked <= 7 THEN
            (IF difficulty = "medium" THEN 20 ELSE 10)
        ELSE
            (IF difficulty = "hard" THEN 20 ELSE 10)

\* factor 4, important categories (lines 559-563)
importance_score(q) ==
    IF Get(q, "category", NoneStr)
          \in {"talent_philosophy", "experience", "motivation"}
    THEN 10 ELSE 3

\* the score of one candidate (lines 519-568)
score_of(q, asked_ids, category_balance, last_answer) ==
    balance_score(q, Get(category_balance, "needs_more", <<>>))
    + context_score(q, last_answer)
    + difficulty_score(q, Len(asked_ids))
    + importance_score(q)

\* scored_questions.sort(key=score, reverse=True) (line 571): a stable
\* sort, so candidates of equal score keep their order.  Insert x into
\* the sorted list after every entry whose score is at least x's.
\* an insertion that puts x before the entries of equal score
RECURSIVE insert_before_equals(_, _)
insert_before_equals(sorted, x) ==
    IF sorted = <<>> THEN <<x>>
    ELSE IF Head(sorted).score > x.score
         THEN <<Head(sorted)>> \o insert_before_equals(Tail(sorted), x)
         ELSE <<x>> \o sorted

RECURSIVE insert_by_score(_, _)
insert_by_score(sorted, x) ==
    IF sorted = <<>> THEN <<x>>
    ELSE IF Head(sorted).score >= x.score
         THEN <<Head(sorted)>> \o insert_by_score(Tail(sorted), x)
         ELSE <<x>> \o sorted

RECURSIVE sort_by_score(_, _)
sort_by_score(scored, n) ==
    IF n = 0 THEN <<>>
    ELSE insert_by_score(sort_by_score(scored, n - 1), scored[n])

\* select_best_question ending the interview while one candidate is left
select_best_question_ends_early(asked_ids, category_balance, last_answer, question_list) ==
    LET available == available_questions(question_list, asked_ids)
        scored == [i \in 1..Len(available) |->
                     [q |-> available[i],
                      score |-> score_of(available[i], asked_ids,
                                         category_balance, last_answer)]]
        best == sort_by_score(scored, Len(scored))[1]
    IN  IF Len(available) <= 1 THEN Sentinel
        ELSE [question_id |-> Get(best.q, "id", NoneId),
              question |-> Get(best.q, "question", NoneStr),
              category |-> Get(best.q, "category", NoneStr),
              difficulty |-> Get(best.q, "difficulty", NoneStr),
              score |-> best.score]

\* select_best_question, question_list being given (the caller's default
\* None stands for QUESTION_LIST)
select_best_question(asked_ids, category_balance, last_answer, question_list) ==
    LET available == available_questions(question_list, asked_ids)
        scored == [i \in 1..Len(available) |->
                     [q |-> available[i],
                      score |-> score_of(available[i], asked_ids,
                                         category_balance, last_answer)]]
        best == sort_by_score(scored, Len(scored))[1]
    IN  IF available = <<>> THEN Sentinel
        ELSE [question_id |-> Get(best.q, "id", NoneId),
              question |-> Get(best.q, "question", NoneStr),
              category |-> Get(best.q, "category", NoneStr),
              difficulty |-> Get(best.q, "difficulty", NoneStr),
              score |-> best.score]

\* a selector that scores and sorts the question list itself: the
\* list as such a call leaves it, every question with a score entry, in
\* descending order of score
question_list_scored_in_place(asked_ids, category_balance, last_answer, question_list) ==
    LET scored == [i \in 1..Len(question_list) |->
                     [q |-> question_list[i],
                      score |-> score_of(question_list[i], asked_ids,
                                         category_balance, last_answer)]]
        sorted == sort_by_score(scored, Len(scored))
    IN  AsList([i \in 1..Len(sorted) |->
                  [k \in DOMAIN sorted[i].q \cup {"score"} |->
                      IF k = "score" THEN sorted[i].score
                      ELSE sorted[i].q[k]]])

\* the question list as a call of select_best_question leaves it: the
\* candidates are picked into a new list (lines 501-504), each is copied
\* into a new dict with its score ({**q, "score": score}, lines 565-568)
\* and the list of copies is the one sorted (line 571)
question_list_after_select(asked_ids, category_balance, last_answer, question_list) ==
    question_list

-----------------------------------------------------------------------------
(* INTERVIEW_STATE and its initial value (lines 170-178) *)

InitialState ==
    /\ current_question_id = 1
    /\ asked_question_ids = <<>>
    /\ follow_up_counts = EmptyDict
    /\ follow_ups_given = EmptyDict
    /\ phase = "AWAITING_FIRST_TURN"
    /\ emitted = [kind |-> "none", question_id |-> NoneId]

\* no call of a tool function is under way
NoCall == [fn |-> "none"]

\* a call that has not returned yet
Pending == [pending |-> TRUE]

\* the filler of an answer: a character that occurs in no phrase, trigger
\* or keyword
Filler(n) == Repeat("x", n)

-----------------------------------------------------------------------------
(* State management functions (lines 187-218) *)

\* INTERVIEW_STATE as one value
CurrentState ==
    [current_question_id |-> current_question_id,
     asked_question_ids |-> asked_question_ids,
     follow_up_counts |-> follow_up_counts]

\* update_interview_state appending the id without the membership test
update_interview_state_no_membership_test(state, question_id, is_follow_up) ==
    IF is_follow_up THEN
        [state EXCEPT !.follow_up_counts =
            Put(@, question_id, Get(@, question_id, 0) + 1)]
    ELSE
        [current_question_id |-> question_id,
         asked_question_ids |-> Append(state.asked_question_ids, question_id),
         follow_up_counts |-> Put(state.follow_up_counts, question_id, 0)]

\* update_interview_state recording the id as asked on a follow-up too
update_interview_state_follow_up_marks_asked(state, question_id, is_follow_up) ==
    [current_question_id |->
        IF is_follow_up THEN state.current_question_id ELSE question_id,
     asked_question_ids |->
        IF InList(question_id, state.asked_question_ids)
        THEN state.asked_question_ids
        ELSE Append(state.asked_question_ids, question_id),
     follow_up_counts |->
        Put(state.follow_up_counts, question_id,
            IF is_follow_up
            THEN Get(state.follow_up_counts, question_id, 0) + 1 ELSE 0)]

\* update_interview_state: the value of INTERVIEW_STATE after the call
update_interview_state(state, question_id, is_follow_up) ==
    IF is_follow_up THEN
        [state EXCEPT !.follow_up_counts =
            Put(@, question_id, Get(@, question_id, 0) + 1)]
    ELSE
        [current_question_id |-> question_id,
         asked_question_ids |->
            IF InList(question_id, state.asked_question_ids)
            THEN state.asked_question_ids
            ELSE Append(state.asked_question_ids, question_id),
         follow_up_counts |-> Put(state.follow_up_counts, question_id, 0)]

get_current_follow_up_count(question_id) ==
    Get(follow_up_counts, question_id, 0)

get_asked_question_ids == asked_question_ids

\* INTERVIEW_STATE becomes the given value
StateBecomes(state) ==
    /\ current_question_id' = state.current_question_id
    /\ asked_question_ids' = state.asked_question_ids
    /\ follow_up_counts' = state.follow_up_counts

-----------------------------------------------------------------------------
(* load_interview_questions (lines 134-154) *)

\* questions of the stored question file.  The keys of the file are
\* written text (질문 내용), competency (평가하려는 역량) and keypoints
\* (예상 답변 키포인트).
RawQuestions ==
    { [text |-> "why_this_company", competency |-> "motivation"],
      [text |-> "a_project_you_led", competency |-> "experience",
       keypoints |-> << <<"S", "Q", "L">> >>],
      [text |-> "your_strengths", keypoints |-> << <<"z", "z">> >>] }

\* questions_list (lines 135-144): ids count from 1, the difficulty is
\* always "medium"
load_interview_questions(data) ==
    [idx \in 1..Len(data) |->
        [id |-> idx,
         question |-> Get(data[idx], "text", ""),
         category |-> Get(data[idx], "competency", "general"),
         keywords |-> Get(data[idx], "keypoints", <<>>),
         difficulty |-> "medium",
         follow_up_templates |-> <<>>]]

\* the banks with a question that a server can have loaded (a turn needs
\* a current question; the server start with no question is taken up
\* with SpecStart)
LoadedBanks ==
    { load_interview_questions(data) :
        data \in ListsUpTo(RawQuestions, MaxQuestions) \ {<<>>} }

-----------------------------------------------------------------------------
(* The turn loop of interview_navigator (lines 697-771) *)

\* the answers a candidate gives: too short, evasive, with two interest
\* triggers (% and 달성), plain, with a keyword, long
NavAnswers ==
    { Filler(5),
      Filler(20) \o <<"mo", "reu", "gess">>,
      Filler(20) \o <<"%">> \o <<"dal", "seong">>,
      Filler(30),
      Filler(20) \o <<"s", "q", "l">>,
      Filler(SHORT_LEN) }

\* the question of the bank with the given id (the first, as a lookup
\* over the list finds it)
QuestionById(bank, id) ==
    LET idx == CHOOSE i \in 1..Len(bank) :
                  /\ bank[i].id = id
                  /\ \A j \in 1..(i - 1) : bank[j].id # id
    IN  bank[idx]

\* the asked questions handed to check_category_balance
AskedQuestions ==
    [i \in 1..Len(asked_question_ids) |->
        QuestionById(QUESTION_LIST, asked_question_ids[i])]

\* what answer_evaluator returns for an answer to the current question
Evaluation(answer) ==
    LET q == QuestionById(QUESTION_LIST, current_question_id)
    IN  evaluate_answer(q.question, answer, q.keywords,
                        get_current_follow_up_count(current_question_id))

\* what question_manager returns after an answer
Selection(answer) ==
    select_best_question(get_asked_question_ids,
                         check_category_balance(AskedQuestions),
                         answer, QUESTION_LIST)

Init ==
    /\ InitialState
    /\ QUESTION_LIST \in LoadedBanks
    /\ call = NoCall
    /\ ret = NoCall

\* the greeting (lines 714-722): it carries the first question of the
\* bank, or, when the bank is empty, the text that the questions cannot
\* be loaded in the place of the question (line 721)
Greeting ==
    [kind |-> "first_question",
     question_id |-> IF Len(QUESTION_LIST) > 0 THEN QUESTION_LIST[1].id
                     ELSE NoneId]

\* the first message of a session: the greeting is emitted (lines
\* 710-722); INTERVIEW_STATE is not touched
StartSession ==
    /\ phase = "AWAITING_FIRST_TURN"
    /\ phase' = "AWAITING_ANSWER"
    /\ emitted' = Greeting
    /\ UNCHANGED <<QUESTION_LIST, current_question_id, asked_question_ids,
                   follow_up_counts, follow_ups_given, call, ret>>

\* the follow-up branch of a turn (lines 731, 736-740): the count of
\* the current question goes up, a follow-up to it is emitted
FollowUp ==
    /\ StateBecomes(update_interview_state(CurrentState,
                                           current_question_id, TRUE))
    /\ follow_ups_given' =
          Put(follow_ups_given, current_question_id,
              Get(follow_ups_given, current_question_id, 0) + 1)
    /\ emitted' = [kind |-> "follow_up", question_id |-> current_question_id]

\* the branch that moves to the selected question (lines 732, 742-746)
Advance(sel) ==
    /\ StateBecomes(update_interview_state(CurrentState,
                                           sel.question_id, FALSE))
    /\ emitted' = [kind |-> "next_question", question_id |-> sel.question_id]
    /\ UNCHANGED follow_ups_given

\* the branch that ends the interview (lines 748-752, 758)
Complete(sel) ==
    /\ emitted' = [kind |-> "complete", question_id |-> sel.question_id]
    /\ UNCHANGED <<current_question_id, asked_question_ids,
                   follow_up_counts, follow_ups_given>>

\* what a turn does with an answer: the answer goes to answer_evaluator;
\* a follow-up is emitted, or question_manager is asked for the next
\* question (lines 724-732)
Turn(answer) ==
    LET res == Evaluation(answer)
    IN  IF res.needs_follow_up THEN FollowUp
        ELSE LET sel == Selection(answer)
             IN  IF sel.question_id = NoneId THEN Complete(sel)
                 ELSE Advance(sel)

\* where the turn loop stands after a response: the end announcement
\* closes the interview (line 758), any other response waits for an answer
PhaseAfter(response) ==
    IF response.kind = "complete" THEN "COMPLETE" ELSE "AWAITING_ANSWER"

\* a message that is not the first one (line 761)
SubmitAnswer(answer) ==
    /\ phase # "AWAITING_FIRST_TURN"
    /\ Turn(answer)
    /\ phase' = PhaseAfter(emitted')
    /\ UNCHANGED <<QUESTION_LIST, call, ret>>

Next ==
    \/ StartSession
    \/ \E answer \in NavAnswers : SubmitAnswer(answer)

Spec == Init /\ [][Next]_vars

-----------------------------------------------------------------------------
(* Direct calls of update_interview_state *)

InitState ==
    /\ InitialState
    /\ QUESTION_LIST = <<>>
    /\ call = NoCall
    /\ ret = NoCall

\* update_interview_state(question_id, is_follow_up)
UpdateInterviewStateCall(question_id, is_follow_up) ==
    /\ is_follow_up => get_current_follow_up_count(question_id) < MaxDirectCount
    /\ StateBecomes(update_interview_state(CurrentState, question_id,
                                           is_follow_up))
    /\ call' = [fn |-> "update_interview_state", question_id |-> question_id,
                is_follow_up |-> is_follow_up]
    /\ UNCHANGED <<QUESTION_LIST, phase, emitted, follow_ups_given, ret>>

NextState ==
    \E question_id \in 1..MaxDirectId, is_follow_up \in BOOLEAN :
        UpdateInterviewStateCall(question_id, is_follow_up)

SpecState == InitState /\ [][NextState]_vars

-----------------------------------------------------------------------------
(* Direct calls of evaluate_answer: the inputs *)

\* lengths of filler that put an answer on either side of the two length
\* thresholds
FillerLens ==
    {0, 1, TOO_SHORT_LEN - 4, TOO_SHORT_LEN - 2, TOO_SHORT_LEN - 1,
     TOO_SHORT_LEN, SHORT_LEN - 3, SHORT_LEN - 1, SHORT_LEN}

\* pieces of answer text: an evasive phrase, a keyword in either case,
\* triggers of the interest categories
EvalPieces ==
    { <<>>,
      <<"mo", "reu", "gess">>,          \* 모르겠 (evasive)
      <<"eops", "eo", "yo">>,           \* 없어요 (evasive)
      <<"s", "q", "l">>,
      <<"S", "Q", "L">>,
      <<"%">>,                          \* numbers
      <<"gal", "deung">>,               \* 갈등: conflict, and 등 of numbers
      <<"mun", "je">>,                  \* 문제: conflict
      <<"dal", "seong">>,               \* 달성: achievement
      <<"ju", "do">>,                   \* 주도: leadership
      <<"bang", "beop">>,               \* 방법: creative
      \* 팀장 갈등 달성 방법: a trigger of every category
      <<"tim", "jang", "gal", "deung", "dal", "seong", "bang", "beop">> }

EvalAnswers ==
    { Filler(n) \o p1 \o p2 : n \in FillerLens, p1 \in EvalPieces,
                              p2 \in EvalPieces }
    \cup {None}

EvalKeywords ==
    { <<>>, << <<"s", "q", "l">> >>, << <<"S", "Q", "L">> >>,
      << <<"z", "z">>, <<"s", "q", "l">> >> }

EvalCalls ==
    [fn : {"evaluate_answer"}, question : {"a_project_you_led"},
     answer : EvalAnswers,
     keywords : EvalKeywords, follow_up_count : 0..MaxFollowUpCount]

InitEval ==
    /\ InitialState
    /\ QUESTION_LIST = <<>>
    /\ call \in EvalCalls
    /\ ret = Pending

EvaluateAnswerCall ==
    /\ call.fn = "evaluate_answer"
    /\ ret = Pending
    /\ ret' = evaluate_answer(call.question, call.answer, call.keywords,
                              call.follow_up_count)
    /\ UNCHANGED <<session, call>>

NextEval == EvaluateAnswerCall

SpecEval == InitEval /\ [][NextEval]_vars

\* the call of evaluate_answer has returned or raised
EvalDone == call.fn = "evaluate_answer" /\ ret # Pending

\* the call returned a result
EvalReturned == EvalDone /\ ~Raised(ret)

-----------------------------------------------------------------------------
(* Direct calls of select_best_question: the inputs *)

\* questions of a bank: with and without id, category and difficulty, two
\* of them with the same id
QuestionPool ==
    { [id |-> 1, question |-> "q1", category |-> "motivation",
       keywords |-> <<>>, difficulty |-> "easy"],
      [id |-> 2, question |-> "q2", category |-> "experience",
       keywords |-> << <<"S", "Q", "L">> >>, difficulty |-> "medium"],
      [id |-> 3, question |-> "q3", category |-> "general",
       keywords |-> << <<"z", "z">> >>, difficulty |-> "hard"],
      [id |-> 3, question |-> "q4", category |-> "motivation",
       keywords |-> <<>>, difficulty |-> "hard"],
      [question |-> "q5", keywords |-> << <<"s", "q", "l">> >>],
      [id |-> 4, question |-> "q6", category |-> "talent_philosophy",
       keywords |-> << <<"z", "z">> >>] }

SelectBanks == ListsUpTo(QuestionPool, MaxBankLen)

\* a set of ids as an ascending list
RECURSIVE AscendingList(_)
AscendingList(S) ==
    IF S = {} THEN <<>>
    ELSE LET m == CHOOSE x \in S : \A y \in S : x <= y
         IN  <<m>> \o AscendingList(S \ {m})

\* asked lists: any ids of the pool, followed by ids of no pool question
\* that bring the length into the middle and the late difficulty band
SelectAskedLists ==
    { AscendingList(S) \o extra :
        S \in SUBSET {1, 2, 3, 4},
        extra \in {<<>>, <<11, 12, 13>>, <<11, 12, 13, 14, 15, 16, 17>>} }

SelectBalances ==
    { [needs_more |-> <<>>],
      [needs_more |-> <<"experience">>],
      [needs_more |-> <<"talent_philosophy", "motivation", "other">>],
      [needs_more |-> target_categories],
      EmptyDict }

SelectLastAnswers ==
    { <<>>, Filler(3) \o <<"s", "q", "l">>, Filler(5) }

SelectCalls ==
    [fn : {"select_best_question"}, asked_question_ids : SelectAskedLists,
     category_balance : SelectBalances, last_answer : SelectLastAnswers,
     question_list : SelectBanks]

InitSelect ==
    /\ InitialState
    /\ QUESTION_LIST = <<>>
    /\ call \in SelectCalls
    /\ ret = Pending

SelectBestQuestionCall ==
    /\ call.fn = "select_best_question"
    /\ ret = Pending
    /\ ret' = select_best_question(call.asked_question_ids,
                                   call.category_balance, call.last_answer,
                                   call.question_list)
    /\ UNCHANGED <<session, call>>

NextSelect == SelectBestQuestionCall

SpecSelect == InitSelect /\ [][NextSelect]_vars

\* the call of select_best_question has returned
SelectDone == call.fn = "select_best_question" /\ ret # Pending

\* the elements of a list
Elems(lst) == {lst[i] : i \in 1..Len(lst)}

-----------------------------------------------------------------------------
(* Claims about evaluate_answer, checked under SpecEval *)

\* the answer of the call is a text (a str)
AnswerIsText == call.answer # None

\* the answer holds one of the fixed evasive phrases, compared without
\* regard to case
HoldsEvasivePhrase(answer) ==
    \E i \in 1..Len(avoid_phrases) :
        Contains(Lower(answer), Lower(avoid_phrases[i]))

\* C1: for every answer text and keyword list, a call with
\* follow_up_count >= 2 returns needs_follow_up = false and
\* reason = max_follow_ups.
C1_CapRuleWins ==
    (EvalDone /\ AnswerIsText /\ call.follow_up_count >= 2) =>
        /\ ~Raised(ret)
        /\ ret.needs_follow_up = FALSE
        /\ ret.reason = "max_follow_ups"

\* the cap rule answered for a short answer that holds an evasive phrase
C1_Witness ==
    /\ EvalReturned /\ AnswerIsText
    /\ call.follow_up_count >= 2
    /\ Len(call.answer) < 20
    /\ HoldsEvasivePhrase(call.answer)
    /\ ret.reason = "max_follow_ups"

\* C8: with follow_up_count < 2, every answer of fewer than 20 characters
\* gets needs_follow_up = true and reason = too_short, whatever it holds.
C8_TooShort ==
    (EvalDone /\ AnswerIsText /\ call.follow_up_count < 2
        /\ Len(call.answer) < 20) =>
        /\ ~Raised(ret)
        /\ ret.needs_follow_up = TRUE
        /\ ret.reason = "too_short"

\* a short answer with an evasive phrase and a keyword was found too short
C8_Witness ==
    /\ EvalReturned /\ AnswerIsText
    /\ call.follow_up_count < 2
    /\ Len(call.answer) < 20
    /\ HoldsEvasivePhrase(call.answer)
    /\ keyword_found(call.answer, call.keywords)
    /\ ret.reason = "too_short"

\* C9: with follow_up_count < 2 and an answer of at least 20 characters the
\* reason is evasive exactly when the answer holds an evasive phrase
\* (case-insensitively); evasive is never returned when the cap rule or
\* the too_short rule applies.
C9_Evasive ==
    (EvalDone /\ AnswerIsText) =>
        /\ ~Raised(ret)
        /\ (call.follow_up_count < 2 /\ Len(call.answer) >= 20) =>
              (ret.reason = "evasive" <=> HoldsEvasivePhrase(call.answer))
        /\ (call.follow_up_count >= 2 \/ Len(call.answer) < 20) =>
              ret.reason # "evasive"

\* an answer of 20 characters or more, with upper-case letters and an
\* evasive phrase other than the first of the list, was found evasive
C9_Witness ==
    /\ EvalReturned /\ AnswerIsText
    /\ call.follow_up_count < 2
    /\ Len(call.answer) >= 20
    /\ Lower(call.answer) # call.answer
    /\ ~Contains(call.answer, avoid_phrases[1])
    /\ ret.reason = "evasive"
    /\ ret.needs_follow_up = TRUE

\* C10: an empty or None answer is treated as length 0: no error is
\* raised, and with follow_up_count < 2 the result is needs_follow_up =
\* true with reason = too_short.
C10_EmptyOrNoneAnswer ==
    (EvalDone /\ (call.answer = <<>> \/ call.answer = None)) =>
        /\ ~Raised(ret)
        /\ call.follow_up_count < 2 =>
              (ret.needs_follow_up = TRUE /\ ret.reason = "too_short")

-----------------------------------------------------------------------------
(* Claims about select_best_question, checked under SpecSelect *)

\* C3: select_best_question never returns a question_id that is a member
\* of the asked_question_ids it was given.
C3_NeverReturnsAsked ==
    SelectDone => ret.question_id \notin Elems(call.asked_question_ids)

\* a question was returned from a bank that also holds an asked question
C3_Witness ==
    /\ SelectDone
    /\ ret.question_id # NoneId
    /\ \E i \in 1..Len(call.question_list) :
          Get(call.question_list[i], "id", NoneId)
              \in Elems(call.asked_question_ids)

\* every question of the bank carries an id
AllCarryIds(bank) == \A i \in 1..Len(bank) : "id" \in DOMAIN bank[i]

\* every question of the bank carries an id that is in the asked list
AllAsked(bank, asked) ==
    \A i \in 1..Len(bank) :
        "id" \in DOMAIN bank[i] /\ bank[i].id \in Elems(asked)

\* C4: the terminal sentinel (question_id = null, category = end,
\* score = 0) is returned whenever every bank question id is in
\* asked_question_ids, the empty bank included; for a bank whose questions
\* all carry ids it is returned only then.
C4_SentinelIffExhausted ==
    SelectDone =>
        /\ AllAsked(call.question_list, call.asked_question_ids) =>
              (/\ ret.question_id = NoneId
               /\ ret.category = "end"
               /\ ret.score = 0)
        /\ (AllCarryIds(call.question_list) /\ ret.question_id = NoneId) =>
              AllAsked(call.question_list, call.asked_question_ids)

\* the sentinel was returned for a non-empty bank all of whose ids were
\* asked
C4_Witness ==
    /\ SelectDone
    /\ call.question_list # <<>>
    /\ AllAsked(call.question_list, call.asked_question_ids)
    /\ ret = Sentinel

-----------------------------------------------------------------------------
(* Claims about the session state *)

\* the list has no element twice
NoDuplicates(lst) ==
    \A i, j \in 1..Len(lst) : lst[i] = lst[j] => i = j

\* list a is an initial part of list b
IsPrefix(a, b) == Len(a) <= Len(b) /\ SubSeq(b, 1, Len(a)) = a

\* C2 (as claimed), under Spec: in every reachable state of a session
\* follow_up_counts[q] <= 2 for every question id q, and no question has
\* received more than 2 follow-ups in the session.
C2_AtMostTwoFollowUps ==
    \A q \in 1..Len(QUESTION_LIST) :
        /\ Get(follow_up_counts, q, 0) <= 2
        /\ Get(follow_ups_given, q, 0) <= 2

\* C5, under SpecState: asked_question_ids only grows and never holds an
\* id twice: no call of update_interview_state, for a follow-up or for an
\* advance, removes an id, and an advance to an id already present does
\* not insert it again.
C5_AskedOnlyGrows ==
    [][/\ IsPrefix(asked_question_ids, asked_question_ids')
       /\ NoDuplicates(asked_question_ids')]_vars

\* the last call advanced to an id that was in the list before the call
\* (a newly inserted id stands last)
C5_Witness ==
    /\ call.fn = "update_interview_state"
    /\ ~call.is_follow_up
    /\ Len(asked_question_ids) >= 2
    /\ asked_question_ids[1] = call.question_id
    /\ current_question_id = call.question_id

\* the step is a turn that advanced to a next question
AdvancingTurn ==
    /\ phase # "AWAITING_FIRST_TURN"
    /\ emitted'.kind = "next_question"
    /\ <<current_question_id, asked_question_ids, follow_up_counts>>
          # <<current_question_id', asked_question_ids', follow_up_counts'>>

\* C6 (as claimed), under Spec: after an advancing turn the id that was
\* current before the turn is in asked_question_ids, and the id that
\* becomes the new current_question_id is not yet in it.
C6_EntersWhenLeft ==
    [][AdvancingTurn =>
          /\ InList(current_question_id, asked_question_ids')
          /\ ~InList(current_question_id', asked_question_ids')]_vars

\* C7 (as claimed), under Spec: once the session is COMPLETE a submitted
\* answer changes none of current_question_id, asked_question_ids and
\* follow_up_counts, and no follow-up or next question is emitted.
C7_CompleteIsAbsorbing ==
    [][phase = "COMPLETE" =>
          /\ UNCHANGED <<current_question_id, asked_question_ids,
                         follow_up_counts>>
          /\ emitted'.kind \notin {"follow_up", "next_question"}]_vars

-----------------------------------------------------------------------------
(* Server start and the first message (lines 157-180, 710-722) *)

\* no question file in the store and on disk (lines 108-121)
NoFile == [exists |-> FALSE, questions |-> <<>>]

\* what the store holds at server start: no file, or a file with a list
\* of questions, which can be empty
StoredFiles ==
    {NoFile} \cup { [exists |-> TRUE, questions |-> data] :
                      data \in ListsUpTo(RawQuestions, MaxQuestions) }

\* INTERVIEW_DATA (line 158): the error entry with no questions when the
\* file is missing, the converted questions otherwise
InterviewData(stored) ==
    IF ~stored.exists THEN [error |-> TRUE, questions |-> <<>>]
    ELSE [error |-> FALSE,
          questions |-> load_interview_questions(stored.questions)]

InitStart ==
    /\ phase = "SERVER_START"
    /\ call \in [fn : {"load_interview_questions"}, stored : StoredFiles]
    /\ ret = Pending
    /\ QUESTION_LIST = <<>>
    /\ current_question_id = NoneId
    /\ asked_question_ids = <<>>
    /\ follow_up_counts = EmptyDict
    /\ follow_ups_given = EmptyDict
    /\ emitted = [kind |-> "none", question_id |-> NoneId]

\* the module is loaded: the questions are read, an error is logged as a
\* warning only (lines 161-162), and INTERVIEW_STATE is created with its
\* initial value whatever was read (lines 170-178)
ServerStart ==
    /\ phase = "SERVER_START"
    /\ ret' = InterviewData(call.stored)
    /\ QUESTION_LIST' = ret'.questions
    /\ current_question_id' = 1
    /\ asked_question_ids' = <<>>
    /\ follow_up_counts' = EmptyDict
    /\ phase' = "AWAITING_FIRST_TURN"
    /\ UNCHANGED <<follow_ups_given, emitted, call>>

NextStart ==
    \/ ServerStart
    \/ StartSession

SpecStart == InitStart /\ [][NextStart]_vars

\* C11: when the question bank is empty at session start the navigator
\* refuses to start: no session state with a current_question_id exists,
\* no first-question message is emitted and the loop never waits for an
\* answer.
C11_RefusesEmptyBank ==
    (phase # "SERVER_START" /\ QUESTION_LIST = <<>>) =>
        /\ current_question_id = NoneId
        /\ emitted.kind # "first_question"
        /\ phase # "AWAITING_ANSWER"

-----------------------------------------------------------------------------
(* Two sessions served by one process (lines 169-178) *)

\* INTERVIEW_STATE is one dict of the module: the tool functions of every
\* session of the process read and write the same current_question_id,
\* asked_question_ids and follow_up_counts.  Each session has its own
\* place in the turn loop; phase is here a function of the session, and
\* call names the session whose message was handled last.
Sessions == {"A", "B"}

SharedBanks ==
    { load_interview_questions(data) :
        data \in ListsUpTo(RawQuestions, MaxSharedQuestions) \ {<<>>} }

InitShared ==
    /\ QUESTION_LIST \in SharedBanks
    /\ current_question_id = 1
    /\ asked_question_ids = <<>>
    /\ follow_up_counts = EmptyDict
    /\ follow_ups_given = EmptyDict
    /\ phase = [s \in Sessions |-> "AWAITING_FIRST_TURN"]
    /\ emitted = [kind |-> "none", question_id |-> NoneId]
    /\ call = NoCall
    /\ ret = NoCall

\* the first message of session s
SessionStart(s) ==
    /\ phase[s] = "AWAITING_FIRST_TURN"
    /\ phase' = [phase EXCEPT ![s] = "AWAITING_ANSWER"]
    /\ emitted' = Greeting
    /\ call' = [fn |-> "message", session |-> s]
    /\ UNCHANGED <<QUESTION_LIST, current_question_id, asked_question_ids,
                   follow_up_counts, follow_ups_given, ret>>

\* a later message of session s
SessionAnswer(s, answer) ==
    /\ phase[s] # "AWAITING_FIRST_TURN"
    /\ Turn(answer)
    /\ phase' = [phase EXCEPT ![s] = PhaseAfter(emitted')]
    /\ call' = [fn |-> "message", session |-> s]
    /\ UNCHANGED <<QUESTION_LIST, ret>>

NextShared ==
    \E s \in Sessions :
        \/ SessionStart(s)
        \/ \E answer \in NavAnswers : SessionAnswer(s, answer)

SpecShared == InitShared /\ [][NextShared]_vars

\* C12: a message handled for one session leaves the
\* current_question_id, asked_question_ids and follow_up_counts that
\* another started session works with as they were.
C12_SessionsAreIsolated ==
    [][\A s \in Sessions :
          (call'.fn = "message" /\ call'.session # s
              /\ phase[s] # "AWAITING_FIRST_TURN")
          => UNCHANGED <<current_question_id, asked_question_ids,
                         follow_up_counts>>]_vars

-----------------------------------------------------------------------------
(* Claims about the score of select_best_question, checked under
   SpecSelect *)

\* C13: the score of what select_best_question returns, a candidate
\* (whatever its category and difficulty, present or not) or the closing
\* entry, is an integer from 0 to 100.
C13_ScoreInRange == SelectDone => ret.score \in 0..100

\* C13: a candidate is returned with the highest score there is
C13_Witness == SelectDone /\ ret.score = 100

\* the candidates of the call, in bank order
Candidates ==
    available_questions(call.question_list, call.asked_question_ids)

\* a is easy, b is not, and the two are equal in the category, context
\* and importance factors of the call
DifferOnlyInDifficulty(a, b) ==
    LET needs_more == Get(call.category_balance, "needs_more", <<>>)
    IN  /\ Get(a, "difficulty", "medium") = "easy"
        /\ Get(b, "difficulty", "medium") # "easy"
        /\ balance_score(a, needs_more) = balance_score(b, needs_more)
        /\ context_score(a, call.last_answer)
              = context_score(b, call.last_answer)
        /\ importance_score(a) = importance_score(b)

\* the call of the early stage with two asked ids whose only candidates
\* are the easy question at place i of them and one other question
EasyAgainstOther(i) ==
    /\ SelectDone
    /\ Len(call.asked_question_ids) = 2
    /\ Len(Candidates) = 2
    /\ i \in {1, 2}
    /\ DifferOnlyInDifficulty(Candidates[i], Candidates[3 - i])

ScoreAt(i) ==
    score_of(Candidates[i], call.asked_question_ids, call.category_balance,
             call.last_answer)

\* C18 as claimed: with two ids asked, of two candidates that differ
\* only in difficulty the easy one scores 10 points more than the other
\* and is the one returned, at either place of the bank.
C18_EasyTenHigher ==
    \A i \in {1, 2} :
        EasyAgainstOther(i) =>
            /\ ScoreAt(i) = ScoreAt(3 - i) + 10
            /\ ret.question = Candidates[i].question

\* C18 amended: the easy one scores 10 points more than a medium
\* candidate (or one without difficulty) and 20 points more than a
\* candidate of any other difficulty, and is the one returned, at either
\* place of the bank.
C18_EasyScoresHigher ==
    \A i \in {1, 2} :
        EasyAgainstOther(i) =>
            /\ ScoreAt(i) = ScoreAt(3 - i)
                  + (IF Get(Candidates[3 - i], "difficulty", "medium")
                          = "medium" THEN 10 ELSE 20)
            /\ ret.question = Candidates[i].question
            /\ ret.score = ScoreAt(i)

\* C18: the easy candidate comes second in the bank and is returned
C18_Witness == EasyAgainstOther(2) /\ ret.question = Candidates[2].question

-----------------------------------------------------------------------------
(* Direct calls of check_category_balance *)

\* an asked question of a category; the category "" stands for a
\* question that has no category entry
AskedOf(category) ==
    IF category = "" THEN [question |-> "q"]
    ELSE [question |-> "q", category |-> category]

\* the categories of asked questions: the four of the target, one that
\* is not of the target (the loader's default, line 139), and none
BalanceCategories ==
    <<"talent_philosophy", "experience", "motivation", "other", "general", "">>

\* how many questions of each category a call holds: up to MaxTally of a
\* target category, up to one of the two others
BalanceTallies ==
    { t \in [1..Len(BalanceCategories) -> 0..MaxTally] :
        t[5] <= 1 /\ t[6] <= 1 }

\* the asked questions of tally t from category i on
RECURSIVE AskedFrom(_, _)
AskedFrom(t, i) ==
    IF i > Len(BalanceCategories) THEN <<>>
    ELSE Repeat(AskedOf(BalanceCategories[i]), t[i]) \o AskedFrom(t, i + 1)

\* the list backwards
Reversed(lst) == AsList([i \in 1..Len(lst) |-> lst[Len(lst) + 1 - i]])

BalanceCalls ==
    { [fn |-> "check_category_balance", asked_questions |-> asked] :
        asked \in { AskedFrom(t, 1) : t \in BalanceTallies }
                  \cup { Reversed(AskedFrom(t, 1)) : t \in BalanceTallies } }

InitBalance ==
    /\ InitialState
    /\ QUESTION_LIST = <<>>
    /\ call \in BalanceCalls
    /\ ret = Pending

CheckCategoryBalanceCall ==
    /\ call.fn = "check_category_balance"
    /\ ret = Pending
    /\ ret' = check_category_balance(call.asked_questions)
    /\ UNCHANGED <<session, call>>

NextBalance == CheckCategoryBalanceCall

SpecBalance == InitBalance /\ [][NextBalance]_vars

\* the call of check_category_balance has returned
BalanceDone == call.fn = "check_category_balance" /\ ret # Pending

\* the tally of a category as the function counts it: the questions
\* carrying it, and for "other" also those with no category entry
Tally(c) ==
    Cardinality({ i \in 1..Len(call.asked_questions) :
                    Get(call.asked_questions[i], "category", "other") = c })

BelowTarget(c) == Tally(c) < target_distribution[c]

\* C15: needs_more holds exactly the target categories whose tally is
\* strictly below the target, in the order talent_philosophy, experience,
\* motivation, other: a category never seen is in it, a category whose
\* tally has reached the target is not.
C15_NeedsMore ==
    BalanceDone =>
        ret.needs_more
          = SelectSeq(<<"talent_philosophy", "experience", "motivation",
                        "other">>, BelowTarget)

\* C15: experience has reached its target and is left out, motivation
\* was never seen and is kept
C15_Witness ==
    /\ BalanceDone
    /\ Tally("experience") = 4
    /\ Tally("motivation") = 0
    /\ ret.needs_more = <<"talent_philosophy", "motivation", "other">>

\* the asked questions whose category is missing or is no category of
\* the target
FoldedIntoOther ==
    { i \in 1..Len(call.asked_questions) :
        Get(call.asked_questions[i], "category", "") \notin
            {"talent_philosophy", "experience", "motivation"} }

\* C16: every asked question whose category is missing or is no
\* category of the target is tallied under other, and one such question
\* takes other out of needs_more.
C16_FoldsIntoOther ==
    BalanceDone =>
        /\ Get(ret.category_count, "other", 0) = Cardinality(FoldedIntoOther)
        /\ (FoldedIntoOther # {} => ~InList("other", ret.needs_more))

-----------------------------------------------------------------------------
(* Direct calls of generate_follow_up *)

\* the reasons evaluate_answer gives, and one it does not
FollowUpReasons ==
    {"too_short", "evasive", "no_keywords_short", "interesting_point",
     "sufficient", "unknown"}

\* the lists of category tags, in every order and with repetitions
FollowUpPatterns ==
    ListsUpTo({interest_categories[i] : i \in 1..Len(interest_categories)},
              MaxPatterns)

FollowUpCalls ==
    [fn : {"generate_follow_up"}, question : {"a_project_you_led"},
     answer : {Filler(30)}, reason : FollowUpReasons,
     interest_patterns : FollowUpPatterns]

InitFollowUp ==
    /\ InitialState
    /\ QUESTION_LIST = <<>>
    /\ call \in FollowUpCalls
    /\ ret = Pending

\* the returned sentence is kept as the entry "sentence" of ret
GenerateFollowUpCall ==
    /\ call.fn = "generate_follow_up"
    /\ ret = Pending
    /\ ret' = [sentence |->
                generate_follow_up(call.question, call.answer, call.reason,
                                   call.interest_patterns)]
    /\ UNCHANGED <<session, call>>

NextFollowUp == GenerateFollowUpCall

SpecFollowUp == InitFollowUp /\ [][NextFollowUp]_vars

\* the call of generate_follow_up has returned
FollowUpDone == call.fn = "generate_follow_up" /\ ret # Pending

\* the sentence that the priority order gives for a set of categories
ByPriority(present) ==
    IF "numbers" \in present \/ "achievement" \in present
        THEN "what_effort_for_that_result"
    ELSE IF "conflict" \in present THEN "how_did_you_overcome_it"
    ELSE IF "leadership" \in present THEN "hardest_moment_leading"
    ELSE "most_memorable_moment"

\* C19: for the reason interesting_point and a non-empty list of
\* patterns, generate_follow_up returns the first sentence of the list
\* chosen by the priority numbers-or-achievement, conflict, leadership,
\* default; the choice is a function of the set of categories present,
\* whatever the order they are listed in.
C19_TemplateByPriority ==
    (FollowUpDone /\ call.reason = "interesting_point"
        /\ call.interest_patterns # <<>>)
    => ret.sentence = ByPriority(Elems(call.interest_patterns))

\* C19: leadership is listed before conflict, and the conflict sentence
\* is returned
C19_Witness ==
    /\ FollowUpDone
    /\ call.reason = "interesting_point"
    /\ call.interest_patterns = <<"leadership", "conflict">>
    /\ ret.sentence = "how_did_you_overcome_it"

-----------------------------------------------------------------------------
(* Claims about a follow-up turn, checked under Spec *)

\* the step is a follow-up turn: one more follow-up has been emitted
FollowUpTurn == follow_ups_given' # follow_ups_given

\* C20: a follow-up turn raises follow_up_counts[current_question_id]
\* by exactly one (from 0 when the id has no entry) and changes neither
\* current_question_id, nor asked_question_ids, nor the count of any
\* other question.
C20_FollowUpFrame ==
    [][FollowUpTurn =>
          /\ emitted'.kind = "follow_up"
          /\ DOMAIN follow_up_counts'
                = DOMAIN follow_up_counts \cup {current_question_id}
          /\ follow_up_counts'[current_question_id]
                = Get(follow_up_counts, current_question_id, 0) + 1
          /\ \A id \in DOMAIN follow_up_counts \ {current_question_id} :
                follow_up_counts'[id] = follow_up_counts[id]
          /\ UNCHANGED <<current_question_id, asked_question_ids>>]_vars

\* C20: a follow-up has been emitted on a question whose count is now 2,
\* after another question was left with a count of its own
C20_Witness ==
    /\ emitted.kind = "follow_up"
    /\ Get(follow_up_counts, current_question_id, 0) = 2
    /\ \E id \in DOMAIN follow_up_counts :
          id # current_question_id /\ follow_up_counts[id] > 0
    /\ asked_question_ids # <<>>

-----------------------------------------------------------------------------
(* A session on a bank of two questions, with answers in English *)

\* a question list of two questions: the first easy with no keyword,
\* the second medium with the keyword "project".  (A list read by
\* load_interview_questions has difficulty medium throughout; the
\* difficulty has no part in the evaluation of an answer.)
ScenarioBank ==
    << [id |-> 1, question |-> "q1", category |-> "motivation",
        keywords |-> <<>>, difficulty |-> "easy",
        follow_up_templates |-> <<>>],
       [id |-> 2, question |-> "q2", category |-> "experience",
        keywords |-> << <<"p", "r", "o", "j", "e", "c", "t">> >>,
        difficulty |-> "medium", follow_up_templates |-> <<>>] >>

\* "I don't know"
IDontKnow == <<"I", " ", "d", "o", "n", "'", "t", " ", "k", "n", "o", "w">>

\* "I led a project to improve X by 30%"
ILedAProject ==
    <<"I", " ", "l", "e", "d", " ", "a", " ", "p", "r", "o", "j", "e", "c",
      "t", " ", "t", "o", " ", "i", "m", "p", "r", "o", "v", "e", " ", "X",
      " ", "b", "y", " ", "3", "0", "%">>

ScenarioAnswers == NavAnswers \cup {IDontKnow, ILedAProject}

InitScenario ==
    /\ InitialState
    /\ QUESTION_LIST = ScenarioBank
    /\ call = NoCall
    /\ ret = NoCall

\* a message that is not the first one; call and ret keep the call of
\* evaluate_answer that the turn made and what it returned
ScenarioTurn(answer) ==
    /\ phase # "AWAITING_FIRST_TURN"
    /\ LET q == QuestionById(QUESTION_LIST, current_question_id)
       IN  call' = [fn |-> "evaluate_answer", question |-> q.question,
                    answer |-> answer, keywords |-> q.keywords,
                    follow_up_count |->
                        get_current_follow_up_count(current_question_id)]
    /\ ret' = Evaluation(answer)
    /\ Turn(answer)
    /\ phase' = PhaseAfter(emitted')
    /\ UNCHANGED QUESTION_LIST

NextScenario ==
    \/ StartSession
    \/ \E answer \in ScenarioAnswers : ScenarioTurn(answer)

SpecScenario == InitScenario /\ [][NextScenario]_vars

\* the last turn evaluated "I led a project to improve X by 30%" as the
\* second answer to question 1: one follow-up had been counted and the
\* session had not advanced before
SecondAnswerToQuestion1 ==
    /\ call.fn = "evaluate_answer"
    /\ call.answer = ILedAProject
    /\ call.question = "q1"
    /\ call.follow_up_count = 1
    /\ \/ emitted.kind \in {"follow_up", "complete"}
             /\ asked_question_ids = <<>>
       \/ emitted.kind = "next_question" /\ Len(asked_question_ids) = 1

\* C17 as claimed: the second answer is evaluated interesting_point or
\* sufficient, and when no follow-up is decided the navigator advances
\* with asked_question_ids = [1] to question 2.
C17_ScenarioAsClaimed ==
    SecondAnswerToQuestion1 =>
        /\ ret.reason \in {"interesting_point", "sufficient"}
        /\ (~ret.needs_follow_up =>
                /\ emitted = [kind |-> "next_question", question_id |-> 2]
                /\ asked_question_ids = <<1>>
                /\ current_question_id = 2)

\* C17 amended: the second answer is evaluated no_keywords_short, a
\* second follow-up on question 1 is emitted and counted, and the
\* session does not advance.
C17_ScenarioSecondFollowUp ==
    SecondAnswerToQuestion1 =>
        /\ ret.reason = "no_keywords_short"
        /\ ret.needs_follow_up
        /\ ret.analysis = [length |-> 35, keyword_found |-> FALSE,
                           interest_score |-> 1]
        /\ emitted = [kind |-> "follow_up", question_id |-> 1]
        /\ follow_up_counts[1] = 2
        /\ asked_question_ids = <<>>
        /\ current_question_id = 1

\* C17: the second answer has been evaluated and has drawn the second
\* follow-up on question 1
C17_Witness ==
    /\ SecondAnswerToQuestion1
    /\ follow_ups_given[1] = 2

-----------------------------------------------------------------------------
(* Claims about rule 4 of evaluate_answer, checked under SpecEval *)

\* the interest categories with at least one trigger in the answer
MatchedCategories(answer) ==
    { c \in {"numbers", "conflict", "achievement", "leadership", "creative"} :
        \E k \in 1..Len(interest_patterns(c)) :
            Contains(answer, interest_patterns(c)[k]) }

\* a keyword of the call occurs in the answer, compared without regard
\* to case
KeywordOccurs ==
    \E i \in 1..Len(call.keywords) :
        Contains(Lower(call.answer), Lower(call.keywords[i]))

\* the call reaches rule 4: below the cap, an answer text of at least 20
\* characters with no evasive phrase
ReachesRule4 ==
    /\ EvalDone
    /\ AnswerIsText
    /\ call.follow_up_count < 2
    /\ Len(call.answer) >= 20
    /\ ~HoldsEvasivePhrase(call.answer)

\* C21: below the cap, for an answer of at least 20 characters with no
\* evasive phrase, the decision is interesting_point (follow-up) when at
\* least 2 interest categories match, else no_keywords_short (follow-up)
\* when no keyword occurs and the answer is shorter than 100 characters,
\* else sufficient (no follow-up).
C21_ContentRuleOrder ==
    ReachesRule4 =>
        /\ ret.reason =
              (IF Cardinality(MatchedCategories(call.answer)) >= 2
                  THEN "interesting_point"
               ELSE IF ~KeywordOccurs /\ Len(call.answer) < 100
                  THEN "no_keywords_short"
               ELSE "sufficient")
        /\ ret.needs_follow_up = (ret.reason # "sufficient")

\* C21: two categories match in a short answer with no keyword, and the
\* decision is interesting_point
C21_Witness ==
    /\ ReachesRule4
    /\ Cardinality(MatchedCategories(call.answer)) >= 2
    /\ ~KeywordOccurs
    /\ Len(call.answer) < 100
    /\ ret.reason = "interesting_point"

\* C22: the interest_score that rule 4 computes is the number of
\* interest categories with a trigger in the answer, from 0 to 5, a
\* category counting once however many of its triggers match; the
\* interest_patterns reported hold exactly that many categories.
C22_InterestScore ==
    ReachesRule4 =>
        /\ ret.analysis.interest_score
              = Cardinality(MatchedCategories(call.answer))
        /\ ret.analysis.interest_score \in 0..5
        /\ (ret.reason = "interesting_point" =>
                /\ ret.interest_patterns = MatchedCategories(call.answer)
                /\ Cardinality(ret.interest_patterns)
                      = ret.analysis.interest_score)

\* C22: all five categories match, numbers and leadership by more than
\* one trigger, and the score is 5
C22_Witness ==
    /\ ReachesRule4
    /\ Contains(call.answer, <<"tim", "jang">>)
    /\ Contains(call.answer, <<"deung">>)
    /\ ret.analysis.interest_score = 5

-----------------------------------------------------------------------------
(* Claims about the scoring and the choice of select_best_question,
   checked under SpecSelect *)

\* a candidate was returned, not the closing entry
CandidateReturned == SelectDone /\ Candidates # <<>>

\* the place among the candidates of the question returned (the first
\* place, where the bank holds it more than once)
ReturnedAt ==
    CHOOSE i \in 1..Len(Candidates) :
        /\ Candidates[i].question = ret.question
        /\ \A j \in 1..(i - 1) : Candidates[j].question # ret.question

\* the category of candidate q is one of needs_more
Needed(q) ==
    InList(Get(q, "category", NoneStr),
           Get(call.category_balance, "needs_more", <<>>))

\* the four factors as the claim words them; a candidate with no
\* difficulty entry counts as medium
ClaimedBalance(q) == IF Needed(q) THEN 40 ELSE 10

ClaimedContext(q) ==
    IF call.last_answer = <<>> THEN 15
    ELSE IF \E k \in 1..Len(q.keywords) :
               Contains(Lower(call.last_answer), Lower(q.keywords[k]))
         THEN 30
    ELSE 5

ClaimedDifficulty(q) ==
    LET total_asked == Len(call.asked_question_ids)
        difficulty == Get(q, "difficulty", "medium")
    IN  IF total_asked <= 3 THEN
            CASE difficulty = "easy" -> 20
              [] difficulty = "medium" -> 10
              [] difficulty = "hard" -> 0
        ELSE IF total_asked <= 7 THEN
            (IF difficulty = "medium" THEN 20 ELSE 10)
        ELSE (IF difficulty = "hard" THEN 20 ELSE 10)

ClaimedImportance(q) ==
    IF Get(q, "category", NoneStr)
          \in {"talent_philosophy", "experience", "motivation"}
    THEN 10 ELSE 3

\* C23: the score of a candidate is the sum of the category factor
\* (40 in needs_more, else 10), the context factor (15 for an empty
\* last_answer, else 30 with a keyword in it without regard to case, else
\* 5), the difficulty factor by the band of the number of asked ids, and
\* the importance factor (10 for the three main categories, else 3).
\* The score of each candidate is seen where it is the one returned.
C23_ScoreIsSumOfFactors ==
    CandidateReturned =>
        LET q == Candidates[ReturnedAt]
        IN  ret.score = ClaimedBalance(q) + ClaimedContext(q)
                          + ClaimedDifficulty(q) + ClaimedImportance(q)

\* C23: in the late band the medium question with an upper-case keyword
\* is returned for a lower-case answer, with 40 + 30 + 10 + 10
C23_Witness ==
    /\ CandidateReturned
    /\ Len(call.asked_question_ids) >= 8
    /\ ret.question = "q2"
    /\ call.last_answer # <<>>
    /\ ret.score = 90

\* C24: the candidate returned has a score at least that of every
\* candidate, and no candidate before it in the bank has that score.
C24_FirstOfTheBest ==
    CandidateReturned =>
        \E i \in 1..Len(Candidates) :
            /\ ret.question = Candidates[i].question
            /\ ret.score = ScoreAt(i)
            /\ \A j \in 1..Len(Candidates) : ScoreAt(j) <= ScoreAt(i)
            /\ \A j \in 1..(i - 1) : ScoreAt(j) < ScoreAt(i)

\* C24: two different candidates have the same score and the first of
\* the bank is returned
C24_Witness ==
    /\ CandidateReturned
    /\ Len(Candidates) = 2
    /\ Candidates[1].question # Candidates[2].question
    /\ ScoreAt(1) = ScoreAt(2)
    /\ ret.question = Candidates[1].question

\* some candidate is of a category in needs_more
SomeCandidateNeeded == \E i \in 1..Len(Candidates) : Needed(Candidates[i])

OtherFactors(q) ==
    context_score(q, call.last_answer)
    + difficulty_score(q, Len(call.asked_question_ids))
    + importance_score(q)

-----------------------------------------------------------------------------
(* The four decision functions called in the course of a session *)

\* the banks of two questions
PureBanks ==
    { load_interview_questions(data) : data \in ListsOfLen(RawQuestions, 2) }

\* the calls that the sub-agents make on a bank: evaluate_answer and
\* generate_follow_up for one of its questions, check_category_balance
\* for its first questions, select_best_question with no question_list
\* (the function then takes QUESTION_LIST, lines 495-496)
PureCallsOn(bank) ==
    { [fn |-> "evaluate_answer", question |-> bank[i].question,
       answer |-> answer, keywords |-> bank[i].keywords,
       follow_up_count |-> n] :
         i \in 1..Len(bank), answer \in NavAnswers, n \in 0..MAX_FOLLOW_UPS }
    \cup
    { [fn |-> "generate_follow_up", question |-> bank[i].question,
       answer |-> Filler(30), reason |-> reason,
       interest_patterns |-> patterns] :
         i \in 1..Len(bank), reason \in FollowUpReasons,
         patterns \in {<<>>, <<"numbers">>, <<"leadership", "conflict">>} }
    \cup
    { [fn |-> "check_category_balance",
       asked_questions |-> SubSeq(bank, 1, k)] : k \in 0..Len(bank) }
    \cup
    { [fn |-> "select_best_question",
       asked_question_ids |-> AscendingList(S),
       category_balance |-> balance, last_answer |-> answer] :
         S \in SUBSET (1..Len(bank)), balance \in SelectBalances,
         answer \in SelectLastAnswers }

\* the session at its start, or with question 2 current after two
\* follow-ups on question 1 and one on question 2
InitPure ==
    /\ QUESTION_LIST \in PureBanks
    /\ \/ /\ current_question_id = 1
          /\ asked_question_ids = <<>>
          /\ follow_up_counts = EmptyDict
          /\ follow_ups_given = EmptyDict
       \/ /\ current_question_id = 2
          /\ asked_question_ids = <<2>>
          /\ follow_up_counts = Put(Put(EmptyDict, 1, 2), 2, 1)
          /\ follow_ups_given = Put(Put(EmptyDict, 1, 2), 2, 1)
    /\ phase = "AWAITING_ANSWER"
    /\ emitted = Greeting
    /\ call \in PureCallsOn(QUESTION_LIST)
    /\ ret = Pending

\* select_best_question(asked_question_ids, category_balance,
\* last_answer): the question list is QUESTION_LIST
SelectFromBankCall ==
    /\ call.fn = "select_best_question"
    /\ ret = Pending
    /\ ret' = select_best_question(call.asked_question_ids,
                                   call.category_balance, call.last_answer,
                                   QUESTION_LIST)
    /\ QUESTION_LIST' =
          question_list_after_select(call.asked_question_ids,
                                     call.category_balance, call.last_answer,
                                     QUESTION_LIST)
    /\ UNCHANGED <<current_question_id, asked_question_ids, follow_up_counts,
                   phase, emitted, follow_ups_given, call>>

NextPure ==
    \/ EvaluateAnswerCall
    \/ GenerateFollowUpCall
    \/ CheckCategoryBalanceCall
    \/ SelectFromBankCall

SpecPure == InitPure /\ [][NextPure]_vars

\* C26: a call of evaluate_answer, generate_follow_up,
\* check_category_balance or select_best_question leaves
\* current_question_id, asked_question_ids, follow_up_counts and the
\* question bank as they were; the bank keeps its questions and their
\* order.
C26_DecisionFunctionsFrame ==
    [][UNCHANGED <<current_question_id, asked_question_ids,
                   follow_up_counts, QUESTION_LIST>>]_vars

\* C26: select_best_question has returned the second question of the
\* bank, ahead of the first, in a session under way, and the bank still
\* has its questions in the order of their ids
C26_Witness ==
    /\ call.fn = "select_best_question"
    /\ ret # Pending
    /\ ret.question_id = 2
    /\ call.asked_question_ids = <<>>
    /\ QUESTION_LIST[1].id = 1
    /\ QUESTION_LIST[2].id = 2
    /\ follow_up_counts # EmptyDict

-----------------------------------------------------------------------------
(* A session up to its end announcement, with its answers counted *)

\* call keeps the number of answers submitted so far; the candidate
\* sends no message after the end announcement
InitCounted ==
    /\ InitialState
    /\ QUESTION_LIST \in LoadedBanks
    /\ call = [fn |-> "session", answers |-> 0]
    /\ ret = NoCall

CountedAnswer(answer) ==
    /\ phase = "AWAITING_ANSWER"
    /\ Turn(answer)
    /\ phase' = PhaseAfter(emitted')
    /\ call' = [call EXCEPT !.answers = @ + 1]
    /\ UNCHANGED <<QUESTION_LIST, ret>>

NextCounted ==
    \/ StartSession
    \/ \E answer \in NavAnswers : CountedAnswer(answer)

SpecCounted == InitCounted /\ [][NextCounted]_vars

\* C27 (as claimed), under SpecCounted: a session on a bank of N
\* questions is COMPLETE after at most 3*N submitted answers, so a
\* session that is not COMPLETE has seen fewer than 3*N answers.
C27_CompleteWithin3N ==
    phase # "COMPLETE" => call.answers < 3 * Len(QUESTION_LIST)

\* C28 (as claimed), under Spec: a turn never advances to the question
\* that is current or to one that was current earlier, the first
\* question of the session included.
C28_CurrentAtMostOnce ==
    [][AdvancingTurn =>
          /\ current_question_id' # current_question_id
          /\ ~InList(current_question_id', asked_question_ids)
          /\ current_question_id' # QUESTION_LIST[1].id]_vars

\* C29 (as claimed), under SpecCounted: at COMPLETE asked_question_ids
\* holds every question id of the bank exactly once, the question asked
\* first (the one of the greeting) first, and follow_up_counts holds for
\* each id the number of follow-ups emitted for it.
C29_SummaryAtComplete ==
    phase = "COMPLETE" =>
        /\ Elems(asked_question_ids)
              = {QUESTION_LIST[i].id : i \in 1..Len(QUESTION_LIST)}
        /\ NoDuplicates(asked_question_ids)
        /\ asked_question_ids[1] = QUESTION_LIST[1].id
        /\ \A i \in 1..Len(QUESTION_LIST) :
              Get(follow_up_counts, QUESTION_LIST[i].id, 0)
                = Get(follow_ups_given, QUESTION_LIST[i].id, 0)

-----------------------------------------------------------------------------
(* evaluate_answer followed by generate_follow_up (lines 602-603) *)

\* list(a set): the lists that hold each element of the set once, in any
\* order
ListsOfSet(S) ==
    { lst \in ListsOfLen(S, Cardinality(S)) : Elems(lst) = S }

\* the interest_patterns entry of a result: a list in some order, or
\* None (written <<>>) where the result has no such entry
PatternListsOf(result) ==
    IF "interest_patterns" \in DOMAIN result
    THEN ListsOfSet(result.interest_patterns)
    ELSE {<<>>}

\* answer_evaluator asks for the follow-up to a result that needs one:
\* generate_follow_up is called with the reason and the interest_patterns
\* of the result that evaluate_answer returned
FollowUpForResult ==
    /\ call.fn = "evaluate_answer"
    /\ ret # Pending
    /\ ~Raised(ret)
    /\ ret.needs_follow_up
    /\ \E patterns \in PatternListsOf(ret) :
          /\ call' = [fn |-> "generate_follow_up",
                      question |-> call.question, answer |-> call.answer,
                      reason |-> ret.reason, interest_patterns |-> patterns]
          /\ ret' = [sentence |->
                      generate_follow_up(call.question, call.answer,
                                         ret.reason, patterns)]
    /\ UNCHANGED session

NextChain ==
    \/ EvaluateAnswerCall
    \/ FollowUpForResult

SpecChain == InitEval /\ [][NextChain]_vars

\* the sentences that belong to a reason
SentencesFor(reason) ==
    CASE reason = "too_short" -> {"explain_in_more_detail"}
      [] reason = "evasive" -> {"any_related_experience"}
      [] reason = "no_keywords_short" -> {"give_a_concrete_example"}
      [] reason = "interesting_point" ->
            {"what_effort_for_that_result", "how_did_you_overcome_it",
             "hardest_moment_leading", "most_memorable_moment"}
      [] OTHER -> {}

\* C30: the follow-up generated for a result of evaluate_answer that
\* needs one is a sentence of that result's reason and never the general
\* sentence; every interesting_point result carries at least 2
\* categories.
C30_FollowUpIsSpecific ==
    /\ (EvalReturned /\ ret.reason = "interesting_point")
          => Cardinality(ret.interest_patterns) >= 2
    /\ (FollowUpDone =>
          /\ ret.sentence \in SentencesFor(call.reason)
          /\ ret.sentence # "be_more_specific")

\* C30: the follow-up to an interesting point with the categories
\* conflict and numbers has been generated
C30_Witness ==
    /\ FollowUpDone
    /\ call.reason = "interesting_point"
    /\ Elems(call.interest_patterns) = {"numbers", "conflict"}
    /\ ret.sentence = "what_effort_for_that_result"

====
